---- MODULE Spec2Model ----
(***************************************************************************)
(* Model of generate_ngo_data.py: one flat procedure that builds twenty    *)
(* tables (eighteen literal, two drawn from numpy's global random          *)
(* generator) and writes each with DataFrame.to_csv(name, index=False),    *)
(* then prints one line.                                                   *)
(*                                                                         *)
(* A file is kept as its header line, its number of data lines and the     *)
(* text of its data lines.  The two 100000-row tables keep the text of     *)
(* their first and last data line only (Probe); every other line of such   *)
(* a table is produced by the same expression at another index.            *)
(*                                                                         *)
(* A file whose write was cut short also keeps the number of the line the  *)
(* write stopped in (cutline, 0 when it stopped at the end of a line) and  *)
(* the text written of that line (cut), which for a 100000-row table is    *)
(* kept, as for whole lines, only of the first and the last line.          *)
(*                                                                         *)
(* Any to_csv call may raise (permissions, disk full); the script catches  *)
(* nothing, so the invocation ends there and the file being written stays  *)
(* as far as its bytes got.  The script may be run again in the same       *)
(* directory after an invocation that returned.                            *)
(***************************************************************************)
EXTENDS Integers, Sequences, FiniteSets, TLC

VARIABLES
    pc,       \* the next step of generate_ngo_data: 1..20 a table, 21 the print, 22 returned
    run,      \* which invocation of the script this is
    status,   \* "running", "ok" (returned) or "aborted" (an exception left the process)
    disk,     \* the working directory: file name -> content
    stdout,   \* the lines this invocation has printed
    written,  \* the to_csv calls that completed in this invocation, in order
    built,    \* how many DataFrames this invocation has constructed
    rng,      \* what numpy's global generator delivers in this invocation
    before,   \* the working directory as it was when this invocation started
    failed    \* the step whose to_csv call raised in this invocation, 0 if none did

vars == <<pc, run, status, disk, stdout, written, built, rng, before, failed>>

(***************************************************************************)
(* Text: decimal numerals and searching, as str() and the csv writer do    *)
(* them.                                                                   *)
(***************************************************************************)
Digits == "0123456789"

DigitChar(d) == SubSeq(Digits, d + 1, d + 1)

RECURSIVE NatToStr(_)
NatToStr(n) == IF n < 10 THEN DigitChar(n)
               ELSE NatToStr(n \div 10) \o DigitChar(n % 10)

IntToStr(n) == IF n < 0 THEN "-" \o NatToStr(0 - n) ELSE NatToStr(n)

Pad2(n) == IF n < 10 THEN "0" \o NatToStr(n) ELSE NatToStr(n)

Pad4(n) == IF n < 10 THEN "000" \o NatToStr(n)
           ELSE IF n < 100 THEN "00" \o NatToStr(n)
           ELSE IF n < 1000 THEN "0" \o NatToStr(n)
           ELSE NatToStr(n)

Contains(s, c) == \E i \in 1..Len(s) : SubSeq(s, i, i) = c

RECURSIVE JoinFrom(_, _, _)
JoinFrom(parts, i, sep) ==
    IF i > Len(parts) THEN ""
    ELSE IF i = Len(parts) THEN parts[i]
    ELSE parts[i] \o sep \o JoinFrom(parts, i + 1, sep)

Join(parts, sep) == JoinFrom(parts, 1, sep)

(***************************************************************************)
(* Values.  A cell is an integer, a float (kept in hundredths: every float *)
(* of the script is a multiple of 0.01), a string, the missing value       *)
(* np.nan, or a date (a proleptic Gregorian ordinal, as datetime keeps it).*)
(***************************************************************************)
I(v) == [k |-> "int", n |-> v, s |-> ""]

F(h) == [k |-> "float", n |-> h, s |-> ""]

S(t) == [k |-> "str", n |-> 0, s |-> t]

NaN == [k |-> "nan", n |-> 0, s |-> ""]

Date(o) == [k |-> "date", n |-> o, s |-> ""]

(* A Python list: its length and its elements. *)
List(elts) == [len |-> Len(elts), at |-> elts]

(* One key of a data dict with its value. *)
Col(name, values) == [name |-> name, values |-> values]

(* The positions of a numpy array that the model keeps: the first and the  *)
(* last.                                                                   *)
Probe(size) == {1, size}

(***************************************************************************)
(* datetime: ordinals and calendar dates.                                  *)
(***************************************************************************)
IsLeap(y) == (y % 4 = 0) /\ ((y % 100 # 0) \/ (y % 400 = 0))

DaysInMonth(y, m) ==
    IF m = 2 THEN (IF IsLeap(y) THEN 29 ELSE 28)
    ELSE IF m \in {4, 6, 9, 11} THEN 30 ELSE 31

RECURSIVE DaysBeforeMonth(_, _)
DaysBeforeMonth(y, m) ==
    IF m = 1 THEN 0 ELSE DaysBeforeMonth(y, m - 1) + DaysInMonth(y, m - 1)

DaysBeforeYear(y) ==
    (y - 1) * 365 + (y - 1) \div 4 - (y - 1) \div 100 + (y - 1) \div 400

(* datetime(y, m, d), as its ordinal. *)
datetime(y, m, d) == DaysBeforeYear(y) + DaysBeforeMonth(y, m) + d

YearOf(o) ==
    CHOOSE y \in (o \div 366)..(o \div 365 + 1) :
        DaysBeforeYear(y) < o /\ o <= DaysBeforeYear(y + 1)

MonthOf(o) ==
    LET y == YearOf(o)
        r == o - DaysBeforeYear(y)
    IN  CHOOSE m \in 1..12 :
            DaysBeforeMonth(y, m) < r /\ r <= DaysBeforeMonth(y, m) + DaysInMonth(y, m)

DayOf(o) ==
    LET y == YearOf(o)
    IN  o - DaysBeforeYear(y) - DaysBeforeMonth(y, MonthOf(o))

(* A midnight timestamp as to_csv writes a datetime64 column: YYYY-MM-DD. *)
DateToStr(o) ==
    Pad4(YearOf(o)) \o "-" \o Pad2(MonthOf(o)) \o "-" \o Pad2(DayOf(o))

(***************************************************************************)
(* numpy.  An array is its length and its elements at Probe.  The global   *)
(* generator is seeded from the operating system when numpy is imported;   *)
(* rng holds, per call site, the raw outcome it delivers for each kept     *)
(* position, and every sampling routine maps a raw outcome into its range. *)
(***************************************************************************)
np_arange(start, stop) ==
    [len |-> stop - start,
     at  |-> [i \in Probe(stop - start) |-> I(start + (i - 1))]]

np_random_choice(a, size, raw) ==
    [len |-> size,
     at  |-> [i \in Probe(size) |-> a[(raw[i] % Len(a)) + 1]]]

np_random_randint(low, high, size, raw) ==
    [len |-> size,
     at  |-> [i \in Probe(size) |-> I(low + (raw[i] % (high - low)))]]

(***************************************************************************)
(* pandas.DataFrame(data): one column per key, in the dict's order, each   *)
(* with the dtype inferred from its values.  Integers beside np.nan become *)
(* float64; strings (with or without np.nan) stay objects.                 *)
(***************************************************************************)
Kinds(values) == {values.at[i].k : i \in DOMAIN values.at}

InferDtype(values) ==
    IF "str" \in Kinds(values) THEN "object"
    ELSE IF "date" \in Kinds(values) THEN "datetime64"
    ELSE IF Kinds(values) \subseteq {"int"} THEN "int64"
    ELSE "float64"

Cast(c, dtype) ==
    IF dtype = "float64" /\ c.k = "int" THEN F(c.n * 100) ELSE c


pd_DataFrame(data) ==
    [j \in 1..Len(data) |->
        LET v == data[j].values
            t == InferDtype(v)
        IN  [name  |-> data[j].name,
             dtype |-> t,
             len   |-> v.len,
             at    |-> [i \in DOMAIN v.at |-> Cast(v.at[i], t)]]]

ColIdx(df, name) == CHOOSE j \in 1..Len(df) : df[j].name = name


(* df.loc[df[maskcol] == maskval, target] = value *)
loc_assign(df, maskcol, maskval, target, value) ==
    LET m == ColIdx(df, maskcol)
        t == ColIdx(df, target)
    IN  [df EXCEPT ![t].at =
            [i \in DOMAIN df[t].at |->
                IF df[m].at[i] = maskval THEN value ELSE df[t].at[i]]]

(* df[target] = df[source] + pd.to_timedelta(days, unit='D') *)
add_days(df, source, target, days) ==
    LET a == ColIdx(df, source)
        t == ColIdx(df, target)
    IN  [df EXCEPT ![t].dtype = df[a].dtype,
                   ![t].len = df[a].len,
                   ![t].at =
            [i \in DOMAIN df[a].at |-> Date(df[a].at[i].n + days.at[i].n)]]

(***************************************************************************)
(* DataFrame.to_csv(path, index=False): a header line and one line per     *)
(* row, fields separated by commas, a field quoted only when it holds the  *)
(* delimiter, the quote character or a line break (csv.QUOTE_MINIMAL),     *)
(* np.nan written as the empty field, floats by repr.                      *)
(***************************************************************************)
RECURSIVE DoubleQuotes(_)
DoubleQuotes(t) ==
    IF t = "" THEN ""
    ELSE (IF Head(t) = "\"" THEN "\"\"" ELSE Head(t)) \o DoubleQuotes(Tail(t))

QuoteMinimal(t) ==
    IF Contains(t, ",") \/ Contains(t, "\"") \/ Contains(t, "\n") \/ Contains(t, "\r")
    THEN "\"" \o DoubleQuotes(t) \o "\""
    ELSE t

FloatRepr(h) ==
    LET a == IF h < 0 THEN 0 - h ELSE h
        w == a \div 100
        f == a % 100
    IN  (IF h < 0 THEN "-" ELSE "") \o NatToStr(w) \o "." \o
        (IF f % 10 = 0 THEN DigitChar(f \div 10) ELSE Pad2(f))

FormatCell(c) ==
    CASE c.k = "int"   -> IntToStr(c.n)
      [] c.k = "float" -> FloatRepr(c.n)
      [] c.k = "str"   -> QuoteMinimal(c.s)
      [] c.k = "date"  -> DateToStr(c.n)
      [] c.k = "nan"   -> ""

to_csv(df, index) ==
    LET names == [j \in 1..Len(df) |-> QuoteMinimal(df[j].name)]
        line(i) == Join([j \in 1..Len(df) |-> FormatCell(df[j].at[i])], ",")
    IN  [header |-> (IF index THEN "," ELSE "") \o Join(names, ","),
         n      |-> df[1].len,
         rows   |-> [i \in DOMAIN df[1].at |->
                        (IF index THEN IntToStr(i - 1) \o "," ELSE "") \o line(i)],
         cutline |-> 0,
         cut     |-> ""]

(***************************************************************************)
(* The eighteen literal tables, cell for cell.                             *)
(***************************************************************************)
data_projects ==
    <<
       Col("ProjectID", List(<<I(101), I(102), I(103), I(104), I(105)>>)),
       Col("Region", List(<<S("East Africa"), S("South Asia"), S("West Africa"), S("East Africa"), S("South Asia")>>)),
       Col("StartDate", List(<<S("2023-01-15"), S("2023-02-01"), S("2023-03-10"), S("2023-04-05"), S("2023-05-20")>>)),
       Col("EndDate", List(<<S("2023-06-30"), S("2023-07-15"), S("2023-08-20"), S("2023-09-10"), S("2023-10-30")>>)),
       Col("Budget", List(<<I(150000), I(200000), I(120000), I(180000), I(250000)>>))
    >>

data_beneficiary_basic ==
    <<
       Col("BeneficiaryID", List(<<I(1), I(2), I(3), I(4), I(5)>>)),
       Col("Age", List(<<I(25), I(34), I(28), I(40), I(30)>>)),
       Col("Gender", List(<<S("Female"), S("Male"), S("Female"), S("Male"), S("Female")>>)),
       Col("Location", List(<<S("Camp A"), S("Village B"), S("Camp A"), S("Village C"), S("Camp B")>>)),
       Col("AssistanceType", List(<<S("Food"), S("Shelter"), S("Medical"), S("Food"), S("Shelter")>>))
    >>

data_missing ==
    <<
       Col("BeneficiaryID", List(<<I(1), I(2), I(3), I(4), I(5), I(6), I(7)>>)),
       Col("Age", List(<<I(25), I(34), NaN, I(45), I(19), NaN, I(50)>>)),
       Col("Gender", List(<<S("Female"), S("Male"), S("Female"), S("Male"), S("Female"), S("Male"), S("Female")>>)),
       Col("Location", List(<<S("Camp A"), S("Village B"), S("Camp A"), S("Village C"), S("Camp B"), S("Village B"), S("Camp A")>>)),
       Col("AssistanceType", List(<<S("Food"), S("Shelter"), NaN, S("Food"), S("Medical"), S("Shelter"), S("Food")>>))
    >>

data_project_updates ==
    <<
       Col("UpdateID", List(<<I(1), I(2), I(3), I(4), I(5), I(6)>>)),
       Col("ProjectID", List(<<I(101), I(102), I(101), I(103), I(102), I(104)>>)),
       Col("Date", List(<<S("2023-01-20"), S("2023-02-05"), S("2023-03-15"), S("2023-04-10"), S("2023-05-25"), S("2023-06-05")>>)),
       Col("Status", List(<<S("On Track"), S("Completed"), NaN, S("Delayed"), S("On Track"), NaN>>)),
       Col("Notes", List(<<S("Initial report"), S("Finalized"), S("Needs review"), NaN, S("Mid-term update"), NaN>>))
    >>

data_health ==
    <<
       Col("PatientID", List(<<I(1), I(2), I(3), I(4), I(5), I(6), I(7), I(8), I(9), I(10)>>)),
       Col("Age", List(<<I(30), I(45), I(22), I(60), I(35), I(50), I(28), I(42), I(55), I(65)>>)),
       Col("Weight", List(<<I(70), I(85), I(60), I(90), I(75), I(80), I(65), I(78), I(88), I(92)>>)),
       Col("Diagnosis", List(<<S("Flu"), S("Malaria"), S("Flu"), S("Typhoid"), S("Flu"), S("Malaria"), S("Flu"), S("Typhoid"), S("Malaria"), S("Flu")>>)),
       Col("Medication", List(<<S("A"), S("B"), NaN, S("C"), S("A"), S("B"), NaN, S("C"), S("B"), NaN>>))
    >>

data_messy ==
    <<
       Col("ProjectID", List(<<S("101"), S("102"), S("103 "), S("104"), S("105")>>)),
       Col("Region", List(<<S("East Africa "), S("south asia"), S("WEST AFRICA"), S("East Africa"), S("South Asia")>>)),
       Col("Status", List(<<S("Active"), S("Completed "), S("Pending"), S("active"), S("Completed")>>)),
       Col("Budget", List(<<S("150000"), S("200000"), S("120000"), S("180000"), S("250000")>>))
    >>

data_item ==
    <<
       Col("Item", List(<<S("   apple"), S("BANANA "), S("orange"), S(" GRAPES  ")>>)),
       Col("Quantity", List(<<S("10"), S("5"), S("12"), S("8")>>)),
       Col("Price", List(<<S("1.20"), S("0.75"), S("2.50"), S("3.00")>>))
    >>

data_advanced_messy ==
    <<
       Col("ProjectCode", List(<<S("NGO-101"), S("PROJ_102"), S("NGO-103"), S("P-104"), S("NGO-105")>>)),
       Col("Description", List(<<S("Food distribution in area A"), S("Shelter for displaced families"), S("Medical aid for children"), S("Water sanitation project"), S("Education support")>>)),
       Col("StartDate", List(<<S("2023/01/15"), S("02-01-2023"), S("March 10, 2023"), S("2023-04-05"), S("2023-05-20")>>)),
       Col("Beneficiaries", List(<<S("1,500"), S("2,000"), S("1,200"), S("1,800"), S("2,500")>>))
    >>

data_transaction ==
    <<
       Col("TransactionID", List(<<S("TRX-ABC-123"), S("TXN_DEF_456"), S("GHI789"), S("TRX-JKL-010")>>)),
       Col("Timestamp", List(<<S("2023-01-01 10:30:00"), S("Jan 2, 23 11:00 AM"), S("03/03/2023 13:45"), S("2023-04-04 09:00:00")>>)),
       Col("Amount", List(<<I(100), I(200), I(150), I(300)>>))
    >>

data_projects_cleaned ==
    <<
       Col("ProjectID", List(<<I(101), I(102), I(103), I(104), I(105), I(106), I(107)>>)),
       Col("Region", List(<<S("East Africa"), S("South Asia"), S("West Africa"), S("East Africa"), S("South Asia"), S("West Africa"), S("East Africa")>>)),
       Col("Budget", List(<<I(150000), I(200000), I(120000), I(180000), I(250000), I(130000), I(190000)>>)),
       Col("Status", List(<<S("Active"), S("Completed"), S("Active"), S("Completed"), S("Active"), S("Pending"), S("Active")>>)),
       Col("StartDate", List(<<S("2023-01-15"), S("2023-02-01"), S("2023-03-10"), S("2023-04-05"), S("2023-05-20"), S("2023-06-01"), S("2023-07-10")>>))
    >>

data_beneficiary_records ==
    <<
       Col("BeneficiaryID", List(<<I(1), I(2), I(3), I(4), I(5), I(6), I(7), I(8)>>)),
       Col("Age", List(<<I(25), I(34), I(28), I(40), I(30), I(22), I(45), I(38)>>)),
       Col("Gender", List(<<S("Female"), S("Male"), S("Female"), S("Male"), S("Female"), S("Male"), S("Female"), S("Male")>>)),
       Col("Location", List(<<S("Camp A"), S("Village B"), S("Camp A"), S("Village C"), S("Camp B"), S("Village B"), S("Camp A"), S("Village C")>>)),
       Col("AssistanceReceived", List(<<S("Food"), S("Shelter"), S("Medical"), S("Food"), S("Shelter"), S("Food"), S("Medical"), S("Shelter")>>))
    >>

data_aid_distribution ==
    <<
       Col("Country", List(<<S("Kenya"), S("Uganda"), S("Kenya"), S("Ethiopia"), S("Uganda"), S("Kenya"), S("Ethiopia"), S("Uganda")>>)),
       Col("AidType", List(<<S("Food"), S("Medical"), S("Shelter"), S("Food"), S("Medical"), S("Food"), S("Shelter"), S("Food")>>)),
       Col("AmountUSD", List(<<I(100000), I(150000), I(80000), I(120000), I(200000), I(90000), I(110000), I(180000)>>)),
       Col("Year", List(<<I(2022), I(2022), I(2023), I(2022), I(2023), I(2023), I(2023), I(2022)>>))
    >>

(* Mutant: the age in the repeated row of ID 1 is mistyped. *)
data_beneficiary_dedup_typo ==
    <<
       Col("BeneficiaryID", List(<<I(1), I(2), I(3), I(1), I(4), I(5), I(2), I(6)>>)),
       Col("Age", List(<<I(25), I(34), I(28), I(26), I(40), I(30), I(34), I(55)>>)),
       Col("Gender", List(<<S("Female"), S("Male"), S("Female"), S("Female"), S("Male"), S("Female"), S("Male"), S("Male")>>)),
       Col("AssistanceType", List(<<S("Food"), S("Shelter"), S("Food"), S("Food"), S("Medical"), S("Shelter"), S("Shelter"), S("Food")>>)),
       Col("Location", List(<<S("Camp A"), S("Village B"), S("Camp A"), S("Camp A"), S("Village C"), S("Camp B"), S("Village B"), S("Camp A")>>))
    >>

data_beneficiary_dedup ==
    <<
       Col("BeneficiaryID", List(<<I(1), I(2), I(3), I(1), I(4), I(5), I(2), I(6)>>)),
       Col("Age", List(<<I(25), I(34), I(28), I(25), I(40), I(30), I(34), I(55)>>)),
       Col("Gender", List(<<S("Female"), S("Male"), S("Female"), S("Female"), S("Male"), S("Female"), S("Male"), S("Male")>>)),
       Col("AssistanceType", List(<<S("Food"), S("Shelter"), S("Food"), S("Food"), S("Medical"), S("Shelter"), S("Shelter"), S("Food")>>)),
       Col("Location", List(<<S("Camp A"), S("Village B"), S("Camp A"), S("Camp A"), S("Village C"), S("Camp B"), S("Village B"), S("Camp A")>>))
    >>

data_event_logs ==
    <<
       Col("LogID", List(<<I(1), I(2), I(3), I(4), I(5), I(6), I(7), I(8)>>)),
       Col("Timestamp", List(<<S("2023-01-01 10:00:00"), S("2023-01-01 10:05:00"), S("2023-01-01 10:00:00"), S("2023-01-02 11:00:00"), S("2023-01-01 10:05:00"), S("2023-01-03 12:00:00"), S("2023-01-02 11:00:00"), S("2023-01-04 13:00:00")>>)),
       Col("EventType", List(<<S("Login"), S("View Page"), S("Login"), S("Logout"), S("View Page"), S("Login"), S("Logout"), S("View Page")>>)),
       Col("UserID", List(<<S("userA"), S("userB"), S("userA"), S("userC"), S("userB"), S("userA"), S("userC"), S("userD")>>))
    >>

data_partners ==
    <<
       Col("OrgID", List(<<I(1), I(2), I(3), I(4), I(5), I(6), I(7)>>)),
       Col("OrgName", List(<<S("Save the Children"), S("Save The Children Intl."), S("Doctors Without Borders"), S("Medecins Sans Frontieres"), S("Save Childrn"), S("Doctors W/O Borders"), S("Save the Children")>>)),
       Col("ContactPerson", List(<<S("Alice"), S("Bob"), S("Charlie"), S("David"), S("Eve"), S("Frank"), S("Grace")>>)),
       Col("City", List(<<S("New York"), S("NYC"), S("Paris"), S("Paris"), S("New-York"), S("London"), S("New York")>>))
    >>

data_health_records ==
    <<
       Col("PatientID", List(<<I(1), I(2), I(3), I(4), I(5), I(6), I(7), I(8), I(9), I(10)>>)),
       Col("WeightKg", List(<<I(70), I(85), I(60), I(90), I(75), I(80), I(65), I(78), I(88), I(92)>>)),
       Col("HeightCm", List(<<I(175), I(180), I(160), I(185), I(170), I(178), I(165), I(172), I(182), I(190)>>)),
       Col("BloodPressureSystolic", List(<<I(120), I(135), I(110), I(150), I(125), I(140), I(115), I(130), I(145), I(160)>>)),
       Col("BloodPressureDiastolic", List(<<I(80), I(85), I(70), I(95), I(82), I(90), I(75), I(80), I(92), I(100)>>))
    >>

data_school ==
    <<
       Col("SchoolID", List(<<I(1), I(2), I(3), I(4), I(5), I(6), I(7), I(8)>>)),
       Col("District", List(<<S("North"), S("South"), S("East"), S("West"), S("North"), S("South"), S("East"), S("West")>>)),
       Col("Enrollment", List(<<I(500), I(700), I(600), I(800), I(550), I(720), I(630), I(850)>>)),
       Col("FundingPerStudent", List(<<I(1000), I(950), I(1100), I(900), I(1050), I(980), I(1120), I(920)>>)),
       Col("TestScoreAverage", List(<<I(75), I(80), I(70), I(85), I(78), I(82), I(72), I(88)>>))
    >>

data_poverty ==
    <<
       Col("District", List(<<S("North"), S("South"), S("East"), S("West")>>)),
       Col("PovertyRate", List(<<F(15), F(10), F(20), F(8)>>))
    >>

df_projects == pd_DataFrame(data_projects)

df_beneficiary_basic == pd_DataFrame(data_beneficiary_basic)

df_missing == pd_DataFrame(data_missing)

df_project_updates == pd_DataFrame(data_project_updates)

df_messy == pd_DataFrame(data_messy)

df_item == pd_DataFrame(data_item)

df_advanced_messy == pd_DataFrame(data_advanced_messy)

df_transaction == pd_DataFrame(data_transaction)

df_projects_cleaned == pd_DataFrame(data_projects_cleaned)

df_beneficiary_records == pd_DataFrame(data_beneficiary_records)

df_aid_distribution == pd_DataFrame(data_aid_distribution)

df_beneficiary_dedup == pd_DataFrame(data_beneficiary_dedup)

df_event_logs == pd_DataFrame(data_event_logs)

df_partners == pd_DataFrame(data_partners)

df_health_records == pd_DataFrame(data_health_records)

df_school == pd_DataFrame(data_school)

df_poverty == pd_DataFrame(data_poverty)

(* Mutant: the assignment through .loc is missing. *)
df_health_literal == pd_DataFrame(data_health)

(* health_data: Medication is set to np.nan wherever Diagnosis is 'Flu'. *)
df_health ==
    loc_assign(pd_DataFrame(data_health), "Diagnosis", S("Flu"), "Medication", NaN)

(***************************************************************************)
(* The two sampled tables.                                                 *)
(***************************************************************************)
num_rows_large == 100000

(* Mutant: the identifiers start at 0. *)
large_data_from_zero(r) ==
    <<
       Col("ProjectID", np_arange(0, num_rows_large)),
       Col("Region", np_random_choice(
           <<S("East Africa"), S("South Asia"), S("West Africa"), S("Latin America")>>,
           num_rows_large, r.Region)),
       Col("Status", np_random_choice(
           <<S("Active"), S("Completed"), S("Pending")>>, num_rows_large, r.Status)),
       Col("Budget", np_random_randint(50000, 500000, num_rows_large, r.Budget))
    >>

large_data(r) ==
    <<
       Col("ProjectID", np_arange(1, num_rows_large + 1)),
       Col("Region", np_random_choice(
           <<S("East Africa"), S("South Asia"), S("West Africa"), S("Latin America")>>,
           num_rows_large, r.Region)),
       Col("Status", np_random_choice(
           <<S("Active"), S("Completed"), S("Pending")>>, num_rows_large, r.Status)),
       Col("Budget", np_random_randint(50000, 500000, num_rows_large, r.Budget))
    >>

df_large_sample(r) == pd_DataFrame(large_data(r))

num_rows_country == 100000

countries ==
    <<S("United States"), S("USA"), S("United States of America"),
      S("   united states"), S("Canada"), S("Mexico"), S("UK"), S("United Kingdom")>>

start_date == datetime(2020, 1, 1)

end_date == datetime(2023, 12, 31)

(* Mutant: the range starts one day early. *)
date_range_early == [x \in 1..(end_date - start_date) |-> Date(start_date + (x - 2))]

(* [start_date + timedelta(days=x) for x in range((end_date - start_date).days)] *)
date_range == [x \in 1..(end_date - start_date) |-> Date(start_date + (x - 1))]

data_country(r) ==
    <<
       Col("Country", np_random_choice(countries, num_rows_country, r.Country)),
       Col("EventDate", np_random_choice(date_range, num_rows_country, r.EventDate)),
       Col("ReportDate", np_random_choice(date_range, num_rows_country, r.ReportDate))
    >>

(* Mutant: the offset may be zero. *)
df_country_from_zero(r) ==
    add_days(pd_DataFrame(data_country(r)), "EventDate", "ReportDate",
             np_random_randint(0, 30, num_rows_country, r.Offset))

df_country(r) ==
    add_days(pd_DataFrame(data_country(r)), "EventDate", "ReportDate",
             np_random_randint(1, 30, num_rows_country, r.Offset))

(***************************************************************************)
(* The script: twenty build-and-write steps in this order, then the print. *)
(***************************************************************************)
(* Mutant: step 13 reuses the name of step 2. *)
FileNames_reused ==
    << "ngo_projects.csv",
       "beneficiary_data.csv",
       "large_ngo_projects.csv",
       "beneficiary_data_missing.csv",
       "project_updates.csv",
       "health_data.csv",
       "messy_data.csv",
       "item_data.csv",
       "advanced_messy_data.csv",
       "transaction_data.csv",
       "large_country_data.csv",
       "ngo_projects_cleaned.csv",
       "beneficiary_data.csv",
       "aid_distribution.csv",
       "beneficiary_data_dedup.csv",
       "event_logs.csv",
       "partner_organizations.csv",
       "health_records.csv",
       "school_data.csv",
       "district_poverty.csv">>

FileNames ==
    << "ngo_projects.csv",
       "beneficiary_data.csv",
       "large_ngo_projects.csv",
       "beneficiary_data_missing.csv",
       "project_updates.csv",
       "health_data.csv",
       "messy_data.csv",
       "item_data.csv",
       "advanced_messy_data.csv",
       "transaction_data.csv",
       "large_country_data.csv",
       "ngo_projects_cleaned.csv",
       "beneficiary_records.csv",
       "aid_distribution.csv",
       "beneficiary_data_dedup.csv",
       "event_logs.csv",
       "partner_organizations.csv",
       "health_records.csv",
       "school_data.csv",
       "district_poverty.csv">>

(* The frame that the k-th to_csv call of the script writes. *)
FrameOf(k, r) ==
    CASE k = 1 -> df_projects
      [] k = 2 -> df_beneficiary_basic
      [] k = 3 -> df_large_sample(r)
      [] k = 4 -> df_missing
      [] k = 5 -> df_project_updates
      [] k = 6 -> df_health
      [] k = 7 -> df_messy
      [] k = 8 -> df_item
      [] k = 9 -> df_advanced_messy
      [] k = 10 -> df_transaction
      [] k = 11 -> df_country(r)
      [] k = 12 -> df_projects_cleaned
      [] k = 13 -> df_beneficiary_records
      [] k = 14 -> df_aid_distribution
      [] k = 15 -> df_beneficiary_dedup
      [] k = 16 -> df_event_logs
      [] k = 17 -> df_partners
      [] k = 18 -> df_health_records
      [] k = 19 -> df_school
      [] k = 20 -> df_poverty

NumTables == Len(FileNames)

SuccessMessage == "All synthetic NGO datasets generated successfully."

(***************************************************************************)
(* What the generator may deliver.  A row of raw outcomes, one per call    *)
(* site; a tape gives the rows for the first and the last position.        *)
(***************************************************************************)
RawLo ==
    [Region |-> 0, Status |-> 0, Budget |-> 0,
     Country |-> 0, EventDate |-> 0, ReportDate |-> 1459, Offset |-> 0]

RawHi ==
    [Region |-> 3, Status |-> 2, Budget |-> 449999,
     Country |-> 7, EventDate |-> 1459, ReportDate |-> 0, Offset |-> 28]

LargeSites == {"Region", "Status", "Budget"}

MkTape(a, b) ==
    [f \in DOMAIN a |->
        [i \in Probe(IF f \in LargeSites THEN num_rows_large ELSE num_rows_country) |->
            IF i = 1 THEN a[f] ELSE b[f]]]

Tapes == {MkTape(RawLo, RawHi), MkTape(RawHi, RawLo)}

RawNgoRows ==
    {[RawLo EXCEPT !.Region = g, !.Status = t, !.Budget = b] :
        g \in 0..4, t \in 0..3, b \in {0, 1, 224999, 449999, 450000}}

RawEventDates == {0, 30, 58, 59, 60, 365, 366, 1094, 1459, 1460}

RawCountryRows ==
    {[RawLo EXCEPT !.Country = c, !.EventDate = e] : c \in 0..7, e \in RawEventDates}
    \cup
    {[RawLo EXCEPT !.EventDate = e, !.Offset = o] : e \in RawEventDates, o \in 0..30}

WideTapes ==
    {MkTape(a, RawHi) : a \in RawNgoRows \cup RawCountryRows}

(***************************************************************************)
(* The working directory.                                                  *)
(***************************************************************************)
EmptyDir == [f \in {} |-> 0]

(* Mutant: an existing file is appended to, not replaced. *)
Put_append(dir, name, content) ==
    [f \in (DOMAIN dir) \cup {name} |->
        IF f # name THEN dir[f]
        ELSE IF name \in DOMAIN dir /\ dir[name].n > 0
             THEN [dir[name] EXCEPT !.n = dir[name].n + 1 + content.n]
             ELSE content]

Put(dir, name, content) ==
    [f \in (DOMAIN dir) \cup {name} |-> IF f = name THEN content ELSE dir[f]]

(* to_csv opens its file with mode 'w' (which empties it) and sends the    *)
(* header line and then the data lines through a buffered handle, so a     *)
(* call that raised leaves either nothing of its own (open failed, the     *)
(* directory is as before) or the bytes that reached the file: a prefix of *)
(* the text, which may stop after any character of the header line or of   *)
(* a data line.                                                            *)

(* The lengths at which a line of text is cut: every one, from before its  *)
(* first character to before its line break.                               *)
Cuts(t) == 0..Len(t)

(* How far from the first and from the last data line of a 100000-row      *)
(* table the number of whole lines written before the failure is followed. *)
EdgeLines == 2

(* The numbers of whole data lines a cut file holds, fewer than all: every *)
(* number at which the line cut is a kept line, and the numbers within     *)
(* EdgeLines of either end.  For a literal table that is every number.     *)
Prefixes(content) ==
    {m \in (0..EdgeLines)
            \cup ((content.n - 1 - EdgeLines)..(content.n - 1))
            \cup {i - 1 : i \in DOMAIN content.rows} :
        0 <= m /\ m < content.n}

(* A failure: at open, inside the header line after c characters, or after *)
(* m whole data lines and c characters of the next.  Of a cut line that is *)
(* not a kept line only its number is known (inline).                      *)
FailureModes(content) ==
    {[at |-> "open", m |-> 0, c |-> 0, inline |-> FALSE]}
    \cup {[at |-> "header", m |-> 0, c |-> c, inline |-> FALSE] :
            c \in Cuts(content.header)}
    \cup UNION {IF m + 1 \in DOMAIN content.rows
                THEN {[at |-> "rows", m |-> m, c |-> c, inline |-> c > 0] :
                        c \in Cuts(content.rows[m + 1])}
                ELSE {[at |-> "rows", m |-> m, c |-> 0, inline |-> b] :
                        b \in BOOLEAN} :
                m \in Prefixes(content)}

CutOf(t, c) == IF c = 0 THEN "" ELSE SubSeq(t, 1, c)

Partial(content, how) ==
    IF how.at = "header"
    THEN [header  |-> CutOf(content.header, how.c),
          n       |-> 0,
          rows    |-> << >>,
          cutline |-> 0,
          cut     |-> ""]
    ELSE [header  |-> content.header,
          n       |-> how.m,
          rows    |-> [i \in {j \in DOMAIN content.rows : j <= how.m} |-> content.rows[i]],
          cutline |-> IF how.inline THEN how.m + 1 ELSE 0,
          cut     |-> IF how.c = 0 THEN "" ELSE CutOf(content.rows[how.m + 1], how.c)]

(* pandas raises ValueError for columns of unequal length. *)
Constructible(df) == \A j \in 1..Len(df) : df[j].len = df[1].len

(***************************************************************************)
(* The state machine.                                                      *)
(***************************************************************************)
MaxRuns == 2

InitWith(tapes) ==
    /\ pc = 1
    /\ run = 1
    /\ status = "running"
    /\ disk = EmptyDir
    /\ stdout = << >>
    /\ written = << >>
    /\ built = 0
    /\ rng \in tapes
    /\ before = EmptyDir
    /\ failed = 0

Init == InitWith(Tapes)

(* Step k: build the k-th table and write it; the write succeeds. *)
BuildAndWrite(k) ==
    /\ status = "running"
    /\ pc = k
    /\ LET df == FrameOf(k, rng)
       IN  IF Constructible(df)
           THEN LET content == to_csv(df, FALSE)
                IN  /\ disk' = Put(disk, FileNames[k], content)
                    /\ written' = Append(written, [name |-> FileNames[k], content |-> content])
                    /\ pc' = k + 1
                    /\ status' = status
           ELSE /\ status' = "aborted"
                /\ UNCHANGED <<disk, written, pc>>
    /\ built' = built + 1
    /\ UNCHANGED <<run, stdout, rng, before, failed>>

(* Mutant: a handler removes what the run wrote before it re-raises. *)
WriteFails_rollback(k) ==
    /\ status = "running"
    /\ pc = k
    /\ disk' = before
    /\ built' = built + 1
    /\ status' = "aborted"
    /\ failed' = k
    /\ UNCHANGED <<pc, run, stdout, written, rng, before>>

(* Step k: the table is built and to_csv raises (permissions, disk full);  *)
(* nothing catches it, the process ends.                                   *)
WriteFails(k) ==
    /\ status = "running"
    /\ pc = k
    /\ Constructible(FrameOf(k, rng))
    /\ LET content == to_csv(FrameOf(k, rng), FALSE)
       IN  \E how \in FailureModes(content) :
              disk' = IF how.at = "open" THEN disk
                      ELSE Put(disk, FileNames[k], Partial(content, how))
    /\ built' = built + 1
    /\ status' = "aborted"
    /\ failed' = k
    /\ UNCHANGED <<pc, run, stdout, written, rng, before>>

(* Mutant: the print stands before the last write. *)
PrintSuccess_early ==
    /\ status = "running"
    /\ pc = NumTables
    /\ stdout = << >>
    /\ stdout' = Append(stdout, SuccessMessage)
    /\ UNCHANGED <<pc, status, run, disk, written, built, rng, before, failed>>

(* The print after the last write, and the return. *)
PrintSuccess ==
    /\ status = "running"
    /\ pc = NumTables + 1
    /\ stdout' = Append(stdout, SuccessMessage)
    /\ pc' = NumTables + 2
    /\ status' = "ok"
    /\ UNCHANGED <<run, disk, written, built, rng, before, failed>>

(* The script is run again in the same directory. *)
RunAgain ==
    /\ status = "ok"
    /\ run < MaxRuns
    /\ run' = run + 1
    /\ pc' = 1
    /\ status' = "running"
    /\ stdout' = << >>
    /\ written' = << >>
    /\ built' = 0
    /\ rng' \in Tapes
    /\ before' = disk
    /\ UNCHANGED <<disk, failed>>

Next ==
    \/ \E k \in 1..NumTables : BuildAndWrite(k)
    \/ \E k \in 1..NumTables : WriteFails(k)
    \/ PrintSuccess
    \/ RunAgain

Spec == Init /\ [][Next]_vars

(* One invocation in an empty directory in which every write succeeds,     *)
(* over a wide set of generator outcomes.                                  *)
InitSampling == InitWith(WideTapes)

NextSampling ==
    \/ \E k \in 1..NumTables : BuildAndWrite(k)
    \/ PrintSuccess

SpecSampling == InitSampling /\ [][NextSampling]_vars

(***************************************************************************)
(* Reading a file back: a csv reader (fields split at commas outside       *)
(* quotes, a doubled quote inside quotes is one quote), and numerals.      *)
(***************************************************************************)
QuotesBefore(t, i) == Cardinality({j \in 1..(i - 1) : SubSeq(t, j, j) = "\""})

(* The commas of a line that separate fields: those outside quotes. *)
Separators(t) ==
    {i \in 1..Len(t) : SubSeq(t, i, i) = "," /\ QuotesBefore(t, i) % 2 = 0}

(* Where the k-th field of a line starts and ends, given its separators. *)
FieldStart(seps, k) ==
    IF k = 1 THEN 1
    ELSE 1 + (CHOOSE i \in seps : Cardinality({j \in seps : j < i}) = k - 2)

FieldEnd(seps, len, k) ==
    IF k = Cardinality(seps) + 1 THEN len
    ELSE (CHOOSE i \in seps : Cardinality({j \in seps : j < i}) = k - 1) - 1

RECURSIVE Undouble(_)
Undouble(t) ==
    IF t = "" THEN ""
    ELSE IF Len(t) >= 2 /\ SubSeq(t, 1, 2) = "\"\""
         THEN "\"" \o Undouble(SubSeq(t, 3, Len(t)))
         ELSE Head(t) \o Undouble(Tail(t))

Unquote(t) ==
    IF Len(t) >= 2 /\ Head(t) = "\"" /\ SubSeq(t, Len(t), Len(t)) = "\""
    THEN Undouble(SubSeq(t, 2, Len(t) - 1))
    ELSE t

ReadLine(t) ==
    LET seps == Separators(t)
    IN  [k \in 1..(Cardinality(seps) + 1) |->
            Unquote(SubSeq(t, FieldStart(seps, k), FieldEnd(seps, Len(t), k)))]

IsDigit(c) == \E d \in 0..9 : DigitChar(d) = c

DigitVal(c) == CHOOSE d \in 0..9 : DigitChar(d) = c

IsNumeral(t) == t # "" /\ \A i \in 1..Len(t) : IsDigit(SubSeq(t, i, i))

RECURSIVE NumeralVal(_)
NumeralVal(t) ==
    IF t = "" THEN 0
    ELSE NumeralVal(SubSeq(t, 1, Len(t) - 1)) * 10 + DigitVal(SubSeq(t, Len(t), Len(t)))

(* A file is complete when it holds what a to_csv call that returned wrote: *)
(* one of this invocation, or one of an earlier invocation (every earlier  *)
(* invocation returned) that nothing has touched since.                    *)
Complete(f) ==
    /\ f \in DOMAIN disk
    /\ disk[f].n > 0
    /\ disk[f].cutline = 0
    /\ disk[f].cut = ""
    /\ \/ \E i \in 1..Len(written) :
             written[i].name = f /\ written[i].content = disk[f]
       \/ f \in DOMAIN before /\ before[f] = disk[f]

(* The field of data line i of file f under the column called name. *)
FieldIdx(f, name) ==
    LET h == ReadLine(disk[f].header)
    IN  CHOOSE j \in 1..Len(h) : h[j] = name

HasField(f, name) ==
    LET h == ReadLine(disk[f].header)
    IN  \E j \in 1..Len(h) : h[j] = name

Field(f, i, name) == ReadLine(disk[f].rows[i])[FieldIdx(f, name)]

(* YYYY-MM-DD read back as an ordinal. *)
ReadDate(t) ==
    datetime(NumeralVal(SubSeq(t, 1, 4)), NumeralVal(SubSeq(t, 6, 7)),
             NumeralVal(SubSeq(t, 9, 10)))

(* The names the files are stated to have. *)
StatedNames ==
    {"ngo_projects.csv", "beneficiary_data.csv", "large_ngo_projects.csv",
     "beneficiary_data_missing.csv", "project_updates.csv", "health_data.csv",
     "messy_data.csv", "item_data.csv", "advanced_messy_data.csv",
     "transaction_data.csv", "large_country_data.csv", "ngo_projects_cleaned.csv",
     "beneficiary_records.csv", "aid_distribution.csv", "beneficiary_data_dedup.csv",
     "event_logs.csv", "partner_organizations.csv", "health_records.csv",
     "school_data.csv", "district_poverty.csv"}

WrittenNames == {written[i].name : i \in 1..Len(written)}

TimesWritten(name) == Cardinality({i \in 1..Len(written) : written[i].name = name})

(***************************************************************************)
(* C1.  A run started in an empty directory in which no write fails ends   *)
(* with exactly the twenty stated files: twenty distinct names, each       *)
(* written exactly once, and no other file.                                *)
(***************************************************************************)
C1_TwentyFiles ==
    (before = EmptyDir /\ status = "ok") =>
        /\ failed = 0
        /\ Cardinality(StatedNames) = 20
        /\ DOMAIN disk = StatedNames
        /\ Len(written) = 20
        /\ \A name \in StatedNames : TimesWritten(name) = 1 /\ Complete(name)

C1_Witness == before = EmptyDir /\ status = "ok" /\ run = 1 /\ Cardinality(DOMAIN disk) = 20

(***************************************************************************)
(* C2.  In every run the success message is printed at most once, and only *)
(* after all twenty files have been written: never while a table's file is *)
(* still unwritten.                                                        *)
(***************************************************************************)
C2_MessageAfterAllWrites ==
    /\ Len(stdout) <= 1
    /\ stdout # << >> =>
          /\ stdout = <<"All synthetic NGO datasets generated successfully.">>
          /\ WrittenNames = StatedNames
          /\ \A name \in StatedNames : Complete(name)

C2_Witness == stdout # << >> /\ run = 2 /\ WrittenNames = StatedNames

(***************************************************************************)
(* C3.  If the write of the k-th table fails, the run aborts there: the    *)
(* k-th table is the last one built, exactly the k-1 tables before it are  *)
(* written and their files stay on disk as written, nothing is printed,    *)
(* and nothing happens afterwards (no cleanup, rollback or retry).         *)
(***************************************************************************)
C3_AbortedAtFailure ==
    failed # 0 =>
        /\ status = "aborted"
        /\ pc = failed
        /\ built = failed
        /\ Len(written) = failed - 1
        /\ stdout = << >>
        /\ \A j \in 1..(failed - 1) :
              /\ written[j].name = FileNames[j]
              /\ FileNames[j] \in DOMAIN disk
              /\ disk[FileNames[j]] = written[j].content
              /\ Complete(FileNames[j])

C3_WriteFailureAborts ==
    /\ []C3_AbortedAtFailure
    /\ [][failed # 0 => UNCHANGED vars]_vars

C3_Witness ==
    /\ failed = 3
    /\ status = "aborted"
    /\ Len(written) = 2
    /\ disk["ngo_projects.csv"] = written[1].content
    /\ "large_ngo_projects.csv" \in DOMAIN disk
    /\ disk["large_ngo_projects.csv"].header = "ProjectID,Region,Status,Budget"
    /\ disk["large_ngo_projects.csv"].n = 99999
    /\ disk["large_ngo_projects.csv"].cut # ""
    /\ ~Complete("large_ngo_projects.csv")

(***************************************************************************)
(* C4.  In health_data every row whose Diagnosis is Flu has an empty       *)
(* Medication field, whatever literal the cell was given; health_records   *)
(* has neither a Diagnosis nor a Medication column, so the rule has no     *)
(* rows there.                                                             *)
(***************************************************************************)
FluRowsEmpty(f) ==
    \A i \in DOMAIN disk[f].rows :
        Field(f, i, "Diagnosis") = "Flu" => Field(f, i, "Medication") = ""

C4_FluMedicationEmpty ==
    /\ Complete("health_data.csv") =>
          /\ HasField("health_data.csv", "Diagnosis")
          /\ HasField("health_data.csv", "Medication")
          /\ FluRowsEmpty("health_data.csv")
    /\ Complete("health_records.csv") =>
          /\ ~HasField("health_records.csv", "Diagnosis")
          /\ ~HasField("health_records.csv", "Medication")

C4_Witness ==
    /\ Complete("health_data.csv")
    /\ Complete("health_records.csv")
    /\ data_health[5].name = "Medication"
    /\ data_health[5].values.at[1] = S("A")
    /\ Field("health_data.csv", 1, "Diagnosis") = "Flu"
    /\ Field("health_data.csv", 1, "Medication") = ""

(* C4 as stated: in health_data and in health_records alike, the rows have *)
(* a diagnosis and a medication field, and the medication field of every   *)
(* Flu row is empty.                                                       *)
C4_AsStated ==
    \A f \in {"health_data.csv", "health_records.csv"} :
        Complete(f) =>
            /\ HasField(f, "Diagnosis")
            /\ HasField(f, "Medication")
            /\ FluRowsEmpty(f)

(***************************************************************************)
(* C8.  beneficiary_data_dedup has exactly 8 rows of five columns;         *)
(* BeneficiaryID 1 and 2 each appear exactly twice, every other ID once;   *)
(* comparing whole rows finds exactly 2 pairs of identical rows, the two   *)
(* rows of ID 1 and the two rows of ID 2.                                  *)
(***************************************************************************)
DedupFile == "beneficiary_data_dedup.csv"

(* The data lines of the file, each read once: <<line number, fields>>. *)
DedupLines ==
    {<<i, ReadLine(disk[DedupFile].rows[i])>> : i \in DOMAIN disk[DedupFile].rows}

IdsOf(lines) ==
    LET col == FieldIdx(DedupFile, "BeneficiaryID")
    IN  {<<l[1], l[2][col]>> : l \in lines}

IdCount(id) == Cardinality({x \in IdsOf(DedupLines) : x[2] = id})

PairsOf(lines) ==
    {<<q[1][1], q[2][1]>> :
        q \in {r \in lines \X lines : r[1][1] < r[2][1] /\ r[1][2] = r[2][2]}}

IdenticalPairs == PairsOf(DedupLines)

C8_DedupTwoPairs ==
    Complete(DedupFile) =>
        /\ disk[DedupFile].n = 8
        /\ DOMAIN disk[DedupFile].rows = 1..8
        /\ Len(ReadLine(disk[DedupFile].header)) = 5
        /\ LET lines == DedupLines
               ids   == IdsOf(lines)
               pairs == PairsOf(lines)
           IN  /\ \A l \in lines : Len(l[2]) = 5
               /\ \A x \in ids :
                     Cardinality({y \in ids : y[2] = x[2]}) =
                         IF x[2] \in {"1", "2"} THEN 2 ELSE 1
               /\ Cardinality(pairs) = 2
               /\ {x[2] : x \in {y \in ids : \E p \in pairs : p[1] = y[1]}} = {"1", "2"}

C8_Witness ==
    /\ Complete(DedupFile)
    /\ IdCount("1") = 2
    /\ <<1, 4>> \in IdenticalPairs
    /\ <<2, 7>> \in IdenticalPairs

(***************************************************************************)
(* The two sampled tables, as read back from disk.                         *)
(***************************************************************************)
LargeFile == "large_ngo_projects.csv"

CountryFile == "large_country_data.csv"

IsDateText(t) == Len(t) = 10 /\ DateToStr(ReadDate(t)) = t

DayGap(i) ==
    ReadDate(Field(CountryFile, i, "ReportDate")) - ReadDate(Field(CountryFile, i, "EventDate"))

(* The ReportDate that np.random.choice drew for position i before the     *)
(* column was assigned again.                                              *)
SampledReportDate(i) ==
    DateToStr(date_range[(rng.ReportDate[i] % Len(date_range)) + 1].n)

StatedCountries ==
    {"United States", "USA", "United States of America", "   united states",
     "Canada", "Mexico", "UK", "United Kingdom"}

(***************************************************************************)
(* C5.  In every row of the written large_country_data, whatever the       *)
(* generator delivered, ReportDate minus EventDate is a whole number of    *)
(* days from 1 to 29 (never 0, never 30): ReportDate comes from the row's  *)
(* EventDate, not from the ReportDate sample drawn first.                  *)
(***************************************************************************)
C5_ReportDateGap ==
    Complete(CountryFile) =>
        \A i \in DOMAIN disk[CountryFile].rows :
            /\ IsDateText(Field(CountryFile, i, "EventDate"))
            /\ IsDateText(Field(CountryFile, i, "ReportDate"))
            /\ 1 <= DayGap(i)
            /\ DayGap(i) <= 29

C5_Witness ==
    /\ Complete(CountryFile)
    /\ DayGap(1) = 1
    /\ DayGap(100000) = 29
    /\ Field(CountryFile, 1, "EventDate") = "2020-02-28"
    /\ Field(CountryFile, 1, "ReportDate") = "2020-02-29"
    /\ SampledReportDate(1) = "2023-12-30"

(***************************************************************************)
(* C6.  In every row of the written large_country_data, whatever the       *)
(* generator delivered, EventDate lies in 2020-01-01 .. 2023-12-31 and     *)
(* Country is one of the 8 stated strings.                                 *)
(***************************************************************************)
C6_EventDateAndCountryDomain ==
    Complete(CountryFile) =>
        \A i \in DOMAIN disk[CountryFile].rows :
            /\ Field(CountryFile, i, "Country") \in StatedCountries
            /\ IsDateText(Field(CountryFile, i, "EventDate"))
            /\ datetime(2020, 1, 1) <= ReadDate(Field(CountryFile, i, "EventDate"))
            /\ ReadDate(Field(CountryFile, i, "EventDate")) <= datetime(2023, 12, 31)

C6_Witness ==
    /\ Complete(CountryFile)
    /\ Field(CountryFile, 1, "Country") = "   united states"
    /\ Field(CountryFile, 1, "EventDate") = "2020-12-31"
    /\ Field(CountryFile, 100000, "EventDate") = "2023-12-30"

(***************************************************************************)
(* C7.  Both large tables have exactly 100000 rows, every column of that   *)
(* length, and in large_ngo_projects the ProjectID of the i-th row is i,   *)
(* whatever the generator delivered for the other columns.                 *)
(***************************************************************************)
C7_LargeTablesShape ==
    /\ \A j \in 1..Len(large_data(rng)) : large_data(rng)[j].values.len = 100000
    /\ \A j \in 1..Len(data_country(rng)) : data_country(rng)[j].values.len = 100000
    /\ Complete(LargeFile) =>
          /\ disk[LargeFile].n = 100000
          /\ DOMAIN disk[LargeFile].rows = {1, 100000}
          /\ \A i \in DOMAIN disk[LargeFile].rows :
                /\ Len(ReadLine(disk[LargeFile].rows[i])) = 4
                /\ IsNumeral(Field(LargeFile, i, "ProjectID"))
                /\ NumeralVal(Field(LargeFile, i, "ProjectID")) = i
    /\ Complete(CountryFile) =>
          /\ disk[CountryFile].n = 100000
          /\ DOMAIN disk[CountryFile].rows = {1, 100000}
          /\ \A i \in DOMAIN disk[CountryFile].rows :
                Len(ReadLine(disk[CountryFile].rows[i])) = 3

C7_Witness ==
    /\ Complete(LargeFile)
    /\ Complete(CountryFile)
    /\ Field(LargeFile, 1, "ProjectID") = "1"
    /\ Field(LargeFile, 100000, "ProjectID") = "100000"
    /\ Field(LargeFile, 1, "Region") = "West Africa"
    /\ Field(LargeFile, 1, "Budget") = "274999"

(***************************************************************************)
(* C9.  Running the script a second time in the same directory succeeds    *)
(* and overwrites every one of the 20 files: the set of files is the same  *)
(* 20, each of the 18 literal files holds what it held after the first     *)
(* run, and the two sampled files may differ but keep their row count,     *)
(* value domains and derived columns.                                      *)
(***************************************************************************)
SampledFiles == {LargeFile, CountryFile}

LargeRowsOk ==
    /\ disk[LargeFile].n = 100000
    /\ disk[LargeFile].header = "ProjectID,Region,Status,Budget"
    /\ \A i \in DOMAIN disk[LargeFile].rows :
          /\ IsNumeral(Field(LargeFile, i, "ProjectID"))
          /\ NumeralVal(Field(LargeFile, i, "ProjectID")) = i
          /\ Field(LargeFile, i, "Region") \in
                {"East Africa", "South Asia", "West Africa", "Latin America"}
          /\ Field(LargeFile, i, "Status") \in {"Active", "Completed", "Pending"}
          /\ IsNumeral(Field(LargeFile, i, "Budget"))
          /\ 50000 <= NumeralVal(Field(LargeFile, i, "Budget"))
          /\ NumeralVal(Field(LargeFile, i, "Budget")) < 500000

CountryRowsOk ==
    /\ disk[CountryFile].n = 100000
    /\ disk[CountryFile].header = "Country,EventDate,ReportDate"
    /\ \A i \in DOMAIN disk[CountryFile].rows :
          /\ Field(CountryFile, i, "Country") \in StatedCountries
          /\ datetime(2020, 1, 1) <= ReadDate(Field(CountryFile, i, "EventDate"))
          /\ ReadDate(Field(CountryFile, i, "EventDate")) <= datetime(2023, 12, 31)
          /\ DayGap(i) \in 1..29

C9_SecondRunOverwrites ==
    (run >= 2 /\ status = "ok") =>
        /\ DOMAIN before = StatedNames
        /\ DOMAIN disk = StatedNames
        /\ \A f \in StatedNames : TimesWritten(f) = 1 /\ Complete(f)
        /\ \A f \in StatedNames \ SampledFiles : disk[f] = before[f]
        /\ LargeRowsOk
        /\ CountryRowsOk

C9_Witness ==
    /\ run = 2
    /\ status = "ok"
    /\ disk[LargeFile] # before[LargeFile]
    /\ disk[CountryFile] # before[CountryFile]
    /\ disk["messy_data.csv"] = before["messy_data.csv"]

(***************************************************************************)
(* Reading a literal file back into typed columns, the way a reader that   *)
(* infers column types does: a column whose non-empty fields are all       *)
(* integer numerals is an integer column (a float column if it has empty   *)
(* fields), one of integer or decimal numerals is a float column, any      *)
(* other is text; an empty field is the missing value.                     *)
(***************************************************************************)
DotAt(t) == {i \in 1..Len(t) : SubSeq(t, i, i) = "."}

IsDecimal(t) ==
    /\ Cardinality(DotAt(t)) = 1
    /\ LET d == CHOOSE i \in DotAt(t) : TRUE
       IN  /\ IsNumeral(SubSeq(t, 1, d - 1))
           /\ IsNumeral(SubSeq(t, d + 1, Len(t)))
           /\ Len(t) - d <= 2

Hundredths(t) ==
    IF IsNumeral(t) THEN NumeralVal(t) * 100
    ELSE LET d == CHOOSE i \in DotAt(t) : TRUE
             frac == SubSeq(t, d + 1, Len(t))
         IN  NumeralVal(SubSeq(t, 1, d - 1)) * 100 +
             (IF Len(frac) = 1 THEN NumeralVal(frac) * 10 ELSE NumeralVal(frac))

ReadColumn(fields) ==
    LET present == {i \in DOMAIN fields : fields[i] # ""}
        kind == IF present # {} /\ \A i \in present : IsNumeral(fields[i])
                THEN (IF present = DOMAIN fields THEN "int64" ELSE "float64")
                ELSE IF present # {} /\ \A i \in present :
                            IsNumeral(fields[i]) \/ IsDecimal(fields[i])
                THEN "float64"
                ELSE "object"
    IN  [i \in DOMAIN fields |->
            IF fields[i] = "" THEN NaN
            ELSE IF kind = "int64" THEN I(NumeralVal(fields[i]))
            ELSE IF kind = "float64" THEN F(Hundredths(fields[i]))
            ELSE S(fields[i])]

ReadBack(f) ==
    LET names == ReadLine(disk[f].header)
        lines == [i \in DOMAIN disk[f].rows |-> ReadLine(disk[f].rows[i])]
    IN  [j \in 1..Len(names) |->
            [name |-> names[j],
             at   |-> ReadColumn([i \in DOMAIN lines |-> lines[i][j]])]]

(* Equal as values: the same cell, or the same number as int and float. *)
SameValue(a, b) ==
    \/ a = b
    \/ /\ a.k \in {"int", "float"}
       /\ b.k \in {"int", "float"}
       /\ (IF a.k = "int" THEN a.n * 100 ELSE a.n) = (IF b.k = "int" THEN b.n * 100 ELSE b.n)

LiteralSteps == {k \in 1..NumTables : FileNames[k] \notin SampledFiles}

RoundTrips(k) ==
    LET df == FrameOf(k, rng)
        back == ReadBack(FileNames[k])
    IN  /\ Len(back) = Len(df)
        /\ disk[FileNames[k]].n = df[1].len
        /\ \A j \in 1..Len(df) :
              /\ back[j].name = df[j].name
              /\ DOMAIN back[j].at = DOMAIN df[j].at
              /\ \A i \in DOMAIN df[j].at : SameValue(back[j].at[i], df[j].at[i])

(***************************************************************************)
(* C10.  Every literal table's file, read back, yields exactly the         *)
(* specified rows, columns and values: the column names in order with no   *)
(* index column, whitespace kept, fields with commas as one cell, text     *)
(* columns of numerals still text, and missing values where specified      *)
(* without changing the integer columns.                                   *)
(***************************************************************************)
C10_LiteralRoundTrip ==
    \A k \in LiteralSteps : Complete(FileNames[k]) => RoundTrips(k)

====
